---------------------------- MODULE Spec2Model ----------------------------
(***************************************************************************)
(* Model of the VOD server's session coordinator (src/VOD_Server/server.py).*)
(*                                                                         *)
(* The registry (class Clients) and the sessions (class Client) are the    *)
(* state.  Every route handler is translated statement by statement into a *)
(* step function on a "world" record; a program counter named after the    *)
(* source line (L425 = server.py line 425) says where a handler is.        *)
(*   - Spec     handles requests serially: one action runs a whole handler *)
(*              from its first statement to its return.                    *)
(*   - SpecConc handles requests on NumThreads worker threads (Flask's     *)
(*              threaded development server): one action is one statement  *)
(*              (one shared read or write) of one handler.  The code takes *)
(*              no lock anywhere.                                          *)
(* Client objects live in a heap (objs) because reset_client replaces the  *)
(* dictionary entry by a NEW object while a concurrent handler may still   *)
(* hold the old one.                                                       *)
(***************************************************************************)
EXTENDS Integers, Sequences, FiniteSets, TLC

\* ------------------------------------------------------------------ bounds
\* Connect requests accepted in one run (caps client_id_counter).
MaxClients == 2
\* Movies in the catalog: ids 1..NumMovies exist, NumMovies + 1 does not.
NumMovies == 2
\* Worker threads of the concurrent specification.
NumThreads == 2

ClientIds == 1..MaxClients
Catalog == 1..NumMovies
MovieIds == 1..(NumMovies + 1)
Threads == 1..NumThreads
\* The thread that handles every request of the serial specification.
MainThread == CHOOSE t \in Threads : \A u \in Threads : t <= u

\* Timestamps sent to skip_to_timestamp: HH, MM, SS as decimal strings.
SeekSamples == { << <<"0","1">>, <<"2","3">>, <<"4","5">> >> }
\* stop_stream's movie_id only appears in the text of its response.
StopMovieIds == {1}
\* Ids for which the endpoint strings are formatted: one and two digits.
MaxUrlId == 12
UrlIds == 1..MaxUrlId
\* Movie lengths HH:MM:SS: hours up to MaxHours, minutes and seconds sampled.
MaxHours == 3
Hours == 0..MaxHours
Sixtieths == {0, 1, 59}
\* The movies table: rows inserted with ids 1..MaxMovieId, any of them
\* removed again; each row has one of two genres.
MaxMovieId == 3
Genres == {"Action", "Drama"}
GenreOptions == {"All", "Horror"} \cup Genres
NoTimestamp == << <<"0">>, <<"0">>, <<"0">> >>

VARIABLES
    objs,               \* heap: object reference -> Client object
    clients,            \* Clients.clients: client id -> object reference
    connected_clients,  \* Clients.connected_clients
    streaming_clients,  \* Clients.streaming_clients
    client_id_counter,  \* Clients.client_id_counter
    frames,             \* per thread: the handler's position, locals, response
    phase,              \* "serial", or "concurrent" once requests overlap
    base,               \* history: the registry when the requests began to overlap
    connects,           \* history: number of connect requests accepted
    issued,             \* history: ids returned by completed connects
    trail,              \* history: the latest answers, while they follow a sequence
    walk,               \* history: the answers of one session's walk-through
    calc,               \* the last call of a function that has no registry state
    player_window       \* client.py: the MoviePlayerWindow and its two threads

vars == << objs, clients, connected_clients, streaming_clients,
           client_id_counter, frames, phase, base, connects, issued,
           trail, walk, calc, player_window >>

\* No function called, no walk-through under way.
NoCalc == [fn |-> "none"]
NoWalk == [client_id |-> 0, statuses |-> << >>]

\* client.py: the MoviePlayerWindow after __init__ (lines 1179-1218), with
\* the gallery shown.  `length` is the client's
\* selected_movie_length_in_seconds_as_integer, `state` what
\* self.player.get_state() returns, `controls` whether the widgets of
\* create_controls exist.  `tk` is the position of the Tk main loop, which
\* runs one callback at a time, and `timer` that of the time update thread.
\* History: `sent` is the last request sent and flips `turn` at each one,
\* `fetched` says that get_movie_rtp_url was sent after the last
\* stop_streaming, `started` that start_streaming was sent since the last
\* start_movie_player or stop_movie began.
MoviePlayerWindow ==
    [ window |-> "gallery", controls |-> FALSE, length |-> 0,
      movie_started |-> FALSE, stop_movie_event |-> FALSE,
      current_timestamp |-> 0, state |-> "NothingSpecial",
      elapsed_var |-> <<"0","0",":","0","0",":","0","0">>,
      remain_var |-> <<"0","0",":","0","0",":","0","0">>,
      tk |-> "idle", timer |-> "none",
      sent |-> [request |-> "connect", turn |-> 0],
      fetched |-> FALSE, started |-> FALSE ]

\* ------------------------------------------------------------ Python values
\* vlc.Media (None when some = FALSE): the movie loaded and the :sout option.
NoMedia == [some |-> FALSE, movie |-> 0, sout |-> <<>>]
\* vlc.MediaPlayer (None when some = FALSE).  `shared` says that the player's
\* media is the very object client.media refers to, so that an option added to
\* one is seen through the other.
NoPlayer ==
    [some |-> FALSE, playing |-> FALSE, media |-> NoMedia, shared |-> FALSE,
     time |-> 0]
\* client.instance.media_player_new()
NewPlayer ==
    [some |-> TRUE, playing |-> FALSE, media |-> NoMedia, shared |-> FALSE,
     time |-> 0]

Client(client_id) ==
    [media |-> NoMedia, id |-> client_id, player |-> NoPlayer,
     is_streaming |-> FALSE]

\* str(n) for n >= 0, as a sequence of characters.
Digit == <<"0","1","2","3","4","5","6","7","8","9">>
RECURSIVE str(_)
str(n) == IF n < 10 THEN << Digit[n + 1] >>
          ELSE str(n \div 10) \o << Digit[(n % 10) + 1] >>

\* int(s) for a sequence of decimal digits.
DigitValue(c) == CHOOSE d \in 0..9 : Digit[d + 1] = c
RECURSIVE int(_)
int(s) == IF Len(s) = 0 THEN 0
          ELSE int(SubSeq(s, 1, Len(s) - 1)) * 10 + DigitValue(s[Len(s)])

\* Mutant of SoutOption: the two ids change places.
SoutOptionSwapped(client_id, movie_id) ==
    << ":sout=#rtp{sdp=rtsp://:8554/" >> \o str(movie_id) \o << "/" >>
        \o str(client_id) \o << "}" >>

\* f':sout=#rtp{{sdp=rtsp://:8554/{client_id}/{movie_id}}}'
SoutOption(client_id, movie_id) ==
    << ":sout=#rtp{sdp=rtsp://:8554/" >> \o str(client_id) \o << "/" >>
        \o str(movie_id) \o << "}" >>

\* Mutant of RtpUrl: the two ids are not separated.
RtpUrlUnseparated(client_id, movie_id) ==
    << "rtsp://localhost:8554/" >> \o str(client_id) \o str(movie_id)

\* f'rtsp://localhost:8554/{client_id}/{movie_id}'
RtpUrl(client_id, movie_id) ==
    << "rtsp://localhost:8554/" >> \o str(client_id) \o << "/" >>
        \o str(movie_id)

\* ------------------------------------------------------------------- world
World ==
    [objs |-> objs, clients |-> clients,
     connected_clients |-> connected_clients,
     streaming_clients |-> streaming_clients,
     client_id_counter |-> client_id_counter,
     frames |-> frames]

Registry(w) ==
    [objs |-> w.objs, clients |-> w.clients,
     connected_clients |-> w.connected_clients,
     streaming_clients |-> w.streaming_clients,
     client_id_counter |-> w.client_id_counter]

IdleFrame ==
    [client_id |-> 0, movie_id |-> 0, pc |-> "idle", op |-> "none",
     ts |-> NoTimestamp, client |-> 0, tmp |-> 0, ret_pc |-> "none",
     status |-> 0, ret_id |-> 0, ret_url |-> <<>>]

Put(f, k, v) == [x \in (DOMAIN f) \cup {k} |-> IF x = k THEN v ELSE f[x]]
Drop(f, k) == [x \in (DOMAIN f) \ {k} |-> f[x]]

\* A reference no live object has (0 is None).
NewRef(w) == CHOOSE r \in 1..(Cardinality(DOMAIN w.objs) + 1) :
                 r \notin DOMAIN w.objs

\* Reference counting: an object neither the dictionary nor a handler's local
\* `client` refers to is freed.  References are opaque, so the live objects
\* are renamed to a canonical form: the object a dictionary key holds is named
\* by the least such key, an object only handlers hold by MaxClients plus the
\* least such thread.
Collect(w) ==
    LET held == {w.clients[c] : c \in DOMAIN w.clients}
        local == {w.frames[t].client : t \in Threads} \ (held \cup {0})
        KeysOf(r) == {c \in DOMAIN w.clients : w.clients[c] = r}
        HoldersOf(r) == {t \in Threads : w.frames[t].client = r}
        Least(S) == CHOOSE x \in S : \A y \in S : x <= y
        name == [r \in held \cup local |->
                    IF r \in held THEN Least(KeysOf(r))
                    ELSE MaxClients + Least(HoldersOf(r))]
        Old(n) == CHOOSE r \in held \cup local : name[r] = n
    IN  IF /\ local = {}
           /\ DOMAIN w.objs = DOMAIN w.clients
           /\ \A c \in DOMAIN w.clients : w.clients[c] = c
        THEN w  \* nothing to free, every name canonical already
        ELSE
        [w EXCEPT
            !.objs = [n \in {name[r] : r \in held \cup local} |->
                         w.objs[Old(n)]],
            !.clients = [c \in DOMAIN w.clients |-> name[w.clients[c]]],
            !.frames = [t \in Threads |->
                           [w.frames[t] EXCEPT
                               !.client = IF @ = 0 THEN 0 ELSE name[@]]]]

Goto(w, t, pc) == [w EXCEPT !.frames[t].pc = pc]

\* `return jsonify(...), status`: the handler's locals die with it.
Return(w, t, status) ==
    [w EXCEPT !.frames[t].pc = "done", !.frames[t].status = status,
              !.frames[t].client = 0, !.frames[t].tmp = 0,
              !.frames[t].ret_pc = "none"]

\* An uncaught exception (AttributeError on None, KeyError): Flask answers 500.
Raise(w, t) == Return(w, t, 500)


\* A method call: run the callee from `pc`, then continue the caller at `ret`.
Call(w, t, pc, ret) == [w EXCEPT !.frames[t].pc = pc, !.frames[t].ret_pc = ret]
\* The callee's return.
Back(w, t) == [w EXCEPT !.frames[t].pc = w.frames[t].ret_pc,
                        !.frames[t].ret_pc = "none"]

\* ------------------------------------------------------- class Clients
\* Clients.__init__
ClientsInit ==
    [objs |-> << >>, clients |-> << >>, connected_clients |-> 0,
     streaming_clients |-> 0, client_id_counter |-> 0]

\* Mutant of add_client: the new id is taken from the number of connected
\* clients instead of the identity counter.
add_client_id_from_count(w, t) ==
    LET f == w.frames[t] IN
    CASE f.pc = "L234r" ->
            Goto([w EXCEPT !.frames[t].tmp = w.connected_clients], t, "L234w")
      [] f.pc = "L234w" ->
            Goto([w EXCEPT !.connected_clients = f.tmp + 1], t, "L235r")
      [] f.pc = "L235r" ->
            Goto([w EXCEPT !.frames[t].tmp = w.client_id_counter], t, "L235w")
      [] f.pc = "L235w" ->
            Goto([w EXCEPT !.client_id_counter = w.connected_clients],
                 t, "L236n")
      [] f.pc = "L236n" ->
            LET r == NewRef(w) IN
            Goto([w EXCEPT !.objs = Put(w.objs, r, Client(w.client_id_counter)),
                           !.frames[t].client = r], t, "L236s")
      [] f.pc = "L236s" ->
            Back([w EXCEPT !.clients = Put(w.clients, w.client_id_counter,
                                           f.client),
                           !.frames[t].client = 0], t)

\* Clients.add_client.  `x += 1` is a read and a write of the attribute;
\* Client(self.client_id_counter) is built before the subscript's key is read.
AddClientPcs == {"L234r", "L234w", "L235r", "L235w", "L236n", "L236s"}
add_client(w, t) ==
    LET f == w.frames[t] IN
    CASE f.pc = "L234r" ->
            Goto([w EXCEPT !.frames[t].tmp = w.connected_clients], t, "L234w")
      [] f.pc = "L234w" ->
            Goto([w EXCEPT !.connected_clients = f.tmp + 1], t, "L235r")
      [] f.pc = "L235r" ->
            Goto([w EXCEPT !.frames[t].tmp = w.client_id_counter], t, "L235w")
      [] f.pc = "L235w" ->
            Goto([w EXCEPT !.client_id_counter = f.tmp + 1], t, "L236n")
      [] f.pc = "L236n" ->
            LET r == NewRef(w) IN
            Goto([w EXCEPT !.objs = Put(w.objs, r, Client(w.client_id_counter)),
                           !.frames[t].client = r], t, "L236s")
      [] f.pc = "L236s" ->
            Back([w EXCEPT !.clients = Put(w.clients, w.client_id_counter,
                                           f.client),
                           !.frames[t].client = 0], t)

\* Mutant of remove_client: removing a client also gives its id back.
remove_client_reusing_id(w, t) ==
    LET f == w.frames[t] IN
    CASE f.pc = "L244" ->
            IF f.client_id \in DOMAIN w.clients
            THEN Goto([w EXCEPT !.clients = Drop(w.clients, f.client_id)],
                      t, "L245r")
            ELSE Raise(w, t)
      [] f.pc = "L245r" ->
            Goto([w EXCEPT !.frames[t].tmp = w.connected_clients], t, "L245w")
      [] f.pc = "L245w" ->
            Back([w EXCEPT !.connected_clients = f.tmp - 1,
                           !.client_id_counter = @ - 1], t)

\* Mutant of remove_client: the entry is deleted, the count is not updated.
remove_client_no_count(w, t) ==
    LET f == w.frames[t] IN
    CASE f.pc = "L244" ->
            IF f.client_id \in DOMAIN w.clients
            THEN Goto([w EXCEPT !.clients = Drop(w.clients, f.client_id)],
                      t, "L245r")
            ELSE Raise(w, t)
      [] f.pc = "L245r" -> Goto(w, t, "L245w")
      [] f.pc = "L245w" -> Back(w, t)

\* Mutant of remove_client: the entry with the least id is deleted.
remove_client_least(w, t) ==
    LET f == w.frames[t] IN
    CASE f.pc = "L244" ->
            IF f.client_id \in DOMAIN w.clients
            THEN Goto([w EXCEPT !.clients =
                          Drop(w.clients,
                               CHOOSE c \in DOMAIN w.clients :
                                   \A d \in DOMAIN w.clients : c <= d)],
                      t, "L245r")
            ELSE Raise(w, t)
      [] f.pc = "L245r" ->
            Goto([w EXCEPT !.frames[t].tmp = w.connected_clients], t, "L245w")
      [] f.pc = "L245w" ->
            Back([w EXCEPT !.connected_clients = f.tmp - 1], t)

\* Clients.remove_client
RemoveClientPcs == {"L244", "L245r", "L245w"}
remove_client(w, t) ==
    LET f == w.frames[t] IN
    CASE f.pc = "L244" ->
            IF f.client_id \in DOMAIN w.clients
            THEN Goto([w EXCEPT !.clients = Drop(w.clients, f.client_id)],
                      t, "L245r")
            ELSE Raise(w, t)
      [] f.pc = "L245r" ->
            Goto([w EXCEPT !.frames[t].tmp = w.connected_clients], t, "L245w")
      [] f.pc = "L245w" ->
            Back([w EXCEPT !.connected_clients = f.tmp - 1], t)

\* Mutant of get_client: the subscript without the membership test.
get_client_unchecked(w, t) ==
    LET f == w.frames[t] IN
    CASE f.pc = "L255" -> Goto(w, t, "L257")
      [] f.pc = "L257" ->
            IF f.client_id \in DOMAIN w.clients
            THEN Back([w EXCEPT !.frames[t].client = w.clients[f.client_id]], t)
            ELSE Raise(w, t)

\* Clients.get_client: a membership test, then the subscript.
GetClientPcs == {"L255", "L257"}
get_client(w, t) ==
    LET f == w.frames[t] IN
    CASE f.pc = "L255" ->
            IF f.client_id \notin DOMAIN w.clients
            THEN Back([w EXCEPT !.frames[t].client = 0], t)
            ELSE Goto(w, t, "L257")
      [] f.pc = "L257" ->
            IF f.client_id \in DOMAIN w.clients
            THEN Back([w EXCEPT !.frames[t].client = w.clients[f.client_id]], t)
            ELSE Raise(w, t)

\* Mutant of reset_client: the entry keeps the object it had.
reset_client_noop(w, t) == Back(w, t)

\* Mutant of reset_client: the entry is deleted instead of replaced.
reset_client_removing(w, t) ==
    Back([w EXCEPT !.clients = Drop(w.clients, w.frames[t].client_id)], t)

\* Mutant of reset_client: the reset also counts one client less.
reset_client_uncounting(w, t) ==
    LET f == w.frames[t]
        r == NewRef(w)
    IN  Back([w EXCEPT !.objs = Put(w.objs, r, Client(f.client_id)),
                       !.clients = Put(w.clients, f.client_id, r),
                       !.connected_clients = @ - 1], t)

\* Clients.reset_client
ResetClientPcs == {"L265"}
reset_client(w, t) ==
    LET f == w.frames[t]
        r == NewRef(w)
    IN  Back([w EXCEPT !.objs = Put(w.objs, r, Client(f.client_id)),
                       !.clients = Put(w.clients, f.client_id, r)], t)

\* Clients.increase_streaming_clients_counter, called from line 427.
IncreaseStreamingPcs == {"L297r", "L297w"}
increase_streaming_clients_counter(w, t) ==
    LET f == w.frames[t] IN
    CASE f.pc = "L297r" ->
            Goto([w EXCEPT !.frames[t].tmp = w.streaming_clients], t, "L297w")
      [] f.pc = "L297w" ->
            Back([w EXCEPT !.streaming_clients = f.tmp + 1], t)

\* Mutant of decrease_streaming_clients_counter: the connected counter is
\* the one decreased.
decrease_connected_instead(w, t) ==
    LET f == w.frames[t] IN
    CASE f.pc = "L301r" ->
            Goto([w EXCEPT !.frames[t].tmp = w.connected_clients], t, "L301w")
      [] f.pc = "L301w" ->
            Back([w EXCEPT !.connected_clients = f.tmp - 1], t)

\* Clients.decrease_streaming_clients_counter
DecreaseStreamingPcs == {"L301r", "L301w"}
decrease_streaming_clients_counter(w, t) ==
    LET f == w.frames[t] IN
    CASE f.pc = "L301r" ->
            Goto([w EXCEPT !.frames[t].tmp = w.streaming_clients], t, "L301w")
      [] f.pc = "L301w" ->
            Back([w EXCEPT !.streaming_clients = f.tmp - 1], t)

\* ------------------------------------------------------------- the routes
\* The client object the handler's local `client` refers to.
Obj(w, t) == w.objs[w.frames[t].client]

\* Mutant of MovieExists: the `if movie:` test always passes.
MovieAlwaysExists(movie_id) == movie_id >= 1

\* session.get(Movies, movie_id) finds a row.
MovieExists(movie_id) == movie_id \in Catalog

\* /connect_new_client_to_server
connect_new_client_to_server(w, t) ==
    LET f == w.frames[t] IN
    CASE f.pc = "L324" -> Call(w, t, "L234r", "L328")
      [] f.pc = "L328" ->
            Return([w EXCEPT !.frames[t].ret_id = w.client_id_counter], t, 200)

\* Mutant of get_movie_rtp_url: a new player is made at every call.
get_movie_rtp_url_new_player(w, t) ==
    LET f == w.frames[t] IN
    CASE f.pc = "L377" ->
            IF MovieExists(f.movie_id) THEN Call(w, t, "L255", "L384")
            ELSE Return(w, t, 405)
      [] f.pc = "L384" ->
            IF f.client = 0 THEN Return(w, t, 404) ELSE Goto(w, t, "L387")
      [] f.pc = "L387" -> Goto(w, t, "L389")
      [] f.pc = "L389" ->
            Goto([w EXCEPT !.objs[f.client].player = NewPlayer], t, "L391")
      [] f.pc = "L391" ->
            \* client.media now refers to a new object, not the player's
            Goto([w EXCEPT !.objs[f.client].media =
                      [some |-> TRUE, movie |-> f.movie_id, sout |-> <<>>],
                           !.objs[f.client].player.shared = FALSE], t, "L393")
      [] f.pc = "L393" ->
            \* add_option acts on the object client.media refers to now; the
            \* player sees it too when it holds the same object.
            LET o == Obj(w, t)
                option == SoutOption(f.client_id, f.movie_id)
            IN  IF ~o.media.some THEN Raise(w, t)
                ELSE Goto([w EXCEPT
                        !.objs[f.client].media.sout = option,
                        !.objs[f.client].player.media.sout =
                            IF o.player.shared THEN option ELSE @],
                          t, "L396")
      [] f.pc = "L396" ->
            IF ~Obj(w, t).player.some THEN Raise(w, t)
            ELSE Goto([w EXCEPT !.objs[f.client].player.media =
                                    Obj(w, t).media,
                                !.objs[f.client].player.shared = TRUE],
                      t, "L401")
      [] f.pc = "L401" ->
            Return([w EXCEPT !.frames[t].ret_url =
                                 RtpUrl(f.client_id, f.movie_id)], t, 200)

\* /get_movie_rtp_url/<client_id>/<movie_id>
get_movie_rtp_url(w, t) ==
    LET f == w.frames[t] IN
    CASE f.pc = "L377" ->
            IF MovieExists(f.movie_id) THEN Call(w, t, "L255", "L384")
            ELSE Return(w, t, 405)
      [] f.pc = "L384" ->
            IF f.client = 0 THEN Return(w, t, 404) ELSE Goto(w, t, "L387")
      [] f.pc = "L387" ->
            IF Obj(w, t).player.some THEN Goto(w, t, "L391")
            ELSE Goto(w, t, "L389")
      [] f.pc = "L389" ->
            Goto([w EXCEPT !.objs[f.client].player = NewPlayer], t, "L391")
      [] f.pc = "L391" ->
            \* client.media now refers to a new object, not the player's
            Goto([w EXCEPT !.objs[f.client].media =
                      [some |-> TRUE, movie |-> f.movie_id, sout |-> <<>>],
                           !.objs[f.client].player.shared = FALSE], t, "L393")
      [] f.pc = "L393" ->
            \* add_option acts on the object client.media refers to now; the
            \* player sees it too when it holds the same object.
            LET o == Obj(w, t)
                option == SoutOption(f.client_id, f.movie_id)
            IN  IF ~o.media.some THEN Raise(w, t)
                ELSE Goto([w EXCEPT
                        !.objs[f.client].media.sout = option,
                        !.objs[f.client].player.media.sout =
                            IF o.player.shared THEN option ELSE @],
                          t, "L396")
      [] f.pc = "L396" ->
            IF ~Obj(w, t).player.some THEN Raise(w, t)
            ELSE Goto([w EXCEPT !.objs[f.client].player.media =
                                    Obj(w, t).media,
                                !.objs[f.client].player.shared = TRUE],
                      t, "L401")
      [] f.pc = "L401" ->
            Return([w EXCEPT !.frames[t].ret_url =
                                 RtpUrl(f.client_id, f.movie_id)], t, 200)

\* Mutant of start_streaming: the `if not client.is_streaming` test is gone.
start_streaming_unguarded(w, t) ==
    LET f == w.frames[t] IN
    CASE f.pc = "L418" -> Call(w, t, "L255", "L420")
      [] f.pc = "L420" ->
            IF f.client = 0 THEN Return(w, t, 404) ELSE Goto(w, t, "L423")
      [] f.pc = "L423" -> Goto(w, t, "L425")
      [] f.pc = "L425" ->
            Goto([w EXCEPT !.objs[f.client].is_streaming = TRUE], t, "L427")
      [] f.pc = "L427" -> Call(w, t, "L297r", "L429")
      [] f.pc = "L429" ->
            IF ~Obj(w, t).player.some THEN Raise(w, t)
            ELSE Return([w EXCEPT !.objs[f.client].player.playing = TRUE],
                        t, 200)

\* /start_streaming/<client_id>
start_streaming(w, t) ==
    LET f == w.frames[t] IN
    CASE f.pc = "L418" -> Call(w, t, "L255", "L420")
      [] f.pc = "L420" ->
            IF f.client = 0 THEN Return(w, t, 404) ELSE Goto(w, t, "L423")
      [] f.pc = "L423" ->
            IF ~Obj(w, t).is_streaming THEN Goto(w, t, "L425")
            ELSE Return(w, t, 400)
      [] f.pc = "L425" ->
            Goto([w EXCEPT !.objs[f.client].is_streaming = TRUE], t, "L427")
      [] f.pc = "L427" -> Call(w, t, "L297r", "L429")
      [] f.pc = "L429" ->
            \* client.player.play(): AttributeError when player is None
            IF ~Obj(w, t).player.some THEN Raise(w, t)
            ELSE Return([w EXCEPT !.objs[f.client].player.playing = TRUE],
                        t, 200)

\* Mutant of skip_to_timestamp: the seek also counts one more stream.
skip_to_timestamp_counting(w, t) ==
    LET f == w.frames[t] IN
    CASE f.pc = "L460" -> Call(w, t, "L255", "L462")
      [] f.pc = "L462" ->
            IF f.client = 0 THEN Return(w, t, 404) ELSE Goto(w, t, "L465")
      [] f.pc = "L465" ->
            LET o == Obj(w, t) IN
            IF o.media.some /\ o.player.some /\ o.is_streaming
            THEN Goto([w EXCEPT !.frames[t].tmp =
                          (int(f.ts[1]) * 3600 + int(f.ts[2]) * 60
                              + int(f.ts[3])) * 1000], t, "L472")
            ELSE Return(w, t, 400)
      [] f.pc = "L472" ->
            IF ~Obj(w, t).player.some THEN Raise(w, t)
            ELSE Goto([w EXCEPT !.objs[f.client].player.time = f.tmp,
                                !.streaming_clients = @ + 1], t, "L474")
      [] f.pc = "L474" ->
            IF ~Obj(w, t).player.some THEN Raise(w, t)
            ELSE Return([w EXCEPT !.objs[f.client].player.playing = TRUE],
                        t, 200)

\* /skip_to_timestamp/<client_id>/<hours>:<minutes>:<seconds>
skip_to_timestamp(w, t) ==
    LET f == w.frames[t] IN
    CASE f.pc = "L460" -> Call(w, t, "L255", "L462")
      [] f.pc = "L462" ->
            IF f.client = 0 THEN Return(w, t, 404) ELSE Goto(w, t, "L465")
      [] f.pc = "L465" ->
            LET o == Obj(w, t) IN
            IF o.media.some /\ o.player.some /\ o.is_streaming
            THEN Goto([w EXCEPT !.frames[t].tmp =
                          (int(f.ts[1]) * 3600 + int(f.ts[2]) * 60
                              + int(f.ts[3])) * 1000], t, "L472")
            ELSE Return(w, t, 400)
      [] f.pc = "L472" ->
            IF ~Obj(w, t).player.some THEN Raise(w, t)
            ELSE Goto([w EXCEPT !.objs[f.client].player.time = f.tmp],
                      t, "L474")
      [] f.pc = "L474" ->
            IF ~Obj(w, t).player.some THEN Raise(w, t)
            ELSE Return([w EXCEPT !.objs[f.client].player.playing = TRUE],
                        t, 200)

\* /stop_streaming/<client_id>/<movie_id>
stop_stream(w, t) ==
    LET f == w.frames[t] IN
    CASE f.pc = "L498" -> Call(w, t, "L255", "L500")
      [] f.pc = "L500" ->
            IF f.client = 0 THEN Return(w, t, 404) ELSE Goto(w, t, "L503")
      [] f.pc = "L503" ->
            IF Obj(w, t).is_streaming THEN Goto(w, t, "L505")
            ELSE Return(w, t, 400)
      [] f.pc = "L505" ->
            IF ~Obj(w, t).player.some THEN Raise(w, t)
            ELSE Goto([w EXCEPT !.objs[f.client].player.playing = FALSE],
                      t, "L507")
      [] f.pc = "L507" ->
            Goto([w EXCEPT !.objs[f.client].is_streaming = FALSE], t, "L509")
      [] f.pc = "L509" -> Call(w, t, "L265", "L511")
      [] f.pc = "L511" -> Call(w, t, "L301r", "L513")
      [] f.pc = "L513" -> Return(w, t, 200)

\* /client_exit/<client_id>
handle_client_exit(w, t) ==
    LET f == w.frames[t] IN
    CASE f.pc = "L546" -> Call(w, t, "L255", "L548")
      [] f.pc = "L548" ->
            IF f.client = 0 THEN Return(w, t, 404) ELSE Goto(w, t, "L553")
      [] f.pc = "L553" ->
            IF Obj(w, t).is_streaming THEN Goto(w, t, "L555")
            ELSE Goto(w, t, "L566")
      [] f.pc = "L555" ->
            IF ~Obj(w, t).player.some THEN Raise(w, t)
            ELSE Goto([w EXCEPT !.objs[f.client].player.playing = FALSE],
                      t, "L557")
      [] f.pc = "L557" ->
            Goto([w EXCEPT !.objs[f.client].is_streaming = FALSE], t, "L559")
      [] f.pc = "L559" -> Call(w, t, "L244", "L561")
      [] f.pc = "L561" -> Call(w, t, "L301r", "L563")
      [] f.pc = "L563" -> Return(w, t, 201)
      [] f.pc = "L566" -> Call(w, t, "L244", "L568")
      [] f.pc = "L568" -> Return(w, t, 200)

\* ---------------------------------------------------------- the scheduler
\* The first statement of each route.
Entry(op) ==
    CASE op = "connect_new_client_to_server" -> "L324"
      [] op = "get_movie_rtp_url" -> "L377"
      [] op = "start_streaming" -> "L418"
      [] op = "skip_to_timestamp" -> "L460"
      [] op = "stop_stream" -> "L498"
      [] op = "handle_client_exit" -> "L546"

Request(op, client_id, movie_id, ts) ==
    [client_id |-> client_id, movie_id |-> movie_id, op |-> op, ts |-> ts]

RequestOf(f) == Request(f.op, f.client_id, f.movie_id, f.ts)

\* Flask dispatches the request to its view function on thread t.
Begin(w, t, req) ==
    [w EXCEPT !.frames[t] =
        [IdleFrame EXCEPT !.pc = Entry(req.op), !.op = req.op,
                          !.client_id = req.client_id,
                          !.movie_id = req.movie_id, !.ts = req.ts]]

\* The statement at thread t's program counter.
Statement(w, t) ==
    LET f == w.frames[t] IN
      CASE f.pc \in AddClientPcs -> add_client(w, t)
        [] f.pc \in RemoveClientPcs -> remove_client(w, t)
        [] f.pc \in GetClientPcs -> get_client(w, t)
        [] f.pc \in ResetClientPcs -> reset_client(w, t)
        [] f.pc \in IncreaseStreamingPcs ->
               increase_streaming_clients_counter(w, t)
        [] f.pc \in DecreaseStreamingPcs ->
               decrease_streaming_clients_counter(w, t)
        [] OTHER ->
            CASE f.op = "connect_new_client_to_server" ->
                     connect_new_client_to_server(w, t)
              [] f.op = "get_movie_rtp_url" -> get_movie_rtp_url(w, t)
              [] f.op = "start_streaming" -> start_streaming(w, t)
              [] f.op = "skip_to_timestamp" -> skip_to_timestamp(w, t)
              [] f.op = "stop_stream" -> stop_stream(w, t)
              [] f.op = "handle_client_exit" -> handle_client_exit(w, t)

\* The statements that create an object or drop a reference to one.
RefCountPcs == {"L236n", "L236s", "L244", "L265"}

\* One step of thread t: its statement, then the reference counts where the
\* statement changed them.  (The singleton set binds the intermediate world
\* to a value once.)
Step(w, t) ==
    CHOOSE w2 \in
        { IF w.frames[t].pc \in RefCountPcs \/ w1.frames[t].pc = "done"
          THEN Collect(w1) ELSE w1 : w1 \in {Statement(w, t)} } : TRUE

\* Thread t's handler run to its return.
RECURSIVE Run(_, _)
Run(w, t) ==
    IF w.frames[t].pc = "done" THEN w
    ELSE CHOOSE w2 \in {Run(w1, t) : w1 \in {Step(w, t)}} : TRUE

Quiescent == \A t \in Threads : frames[t].pc \in {"idle", "done"}

Install(w) ==
    /\ objs' = w.objs
    /\ clients' = w.clients
    /\ connected_clients' = w.connected_clients
    /\ streaming_clients' = w.streaming_clients
    /\ client_id_counter' = w.client_id_counter
    /\ frames' = w.frames

Init ==
    /\ objs = ClientsInit.objs
    /\ clients = ClientsInit.clients
    /\ connected_clients = ClientsInit.connected_clients
    /\ streaming_clients = ClientsInit.streaming_clients
    /\ client_id_counter = ClientsInit.client_id_counter
    /\ frames = [t \in Threads |-> IdleFrame]
    /\ phase = "serial"
    /\ base = ClientsInit
    /\ connects = 0
    /\ issued = {}
    /\ trail = << >>
    /\ walk = NoWalk
    /\ calc = NoCalc
    /\ player_window = MoviePlayerWindow

\* ------------------------------------------------ serial request handling
\* One request handled from dispatch to response with no other in flight.
Serve(req) ==
    /\ phase = "serial"
    /\ Install(Run(Begin([World EXCEPT !.frames = [t \in Threads |-> IdleFrame]],
                         MainThread, req), MainThread))
    /\ UNCHANGED << phase, base >>
    /\ connects' = IF req.op = "connect_new_client_to_server"
                   THEN connects + 1 ELSE connects
    /\ issued' = IF req.op = "connect_new_client_to_server"
                 THEN issued \cup {frames'[MainThread].ret_id} ELSE issued

Handle(req) == Serve(req) /\ UNCHANGED << trail, walk, calc, player_window >>

ConnectNewClientToServer ==
    /\ connects < MaxClients
    /\ Handle(Request("connect_new_client_to_server", 0, 0, NoTimestamp))

GetMovieRtpUrl ==
    \E c \in ClientIds, m \in MovieIds :
        Handle(Request("get_movie_rtp_url", c, m, NoTimestamp))

StartStreaming ==
    \E c \in ClientIds : Handle(Request("start_streaming", c, 0, NoTimestamp))

SkipToTimestamp ==
    \E c \in ClientIds, ts \in SeekSamples :
        Handle(Request("skip_to_timestamp", c, 0, ts))

StopStream ==
    \E c \in ClientIds, m \in StopMovieIds :
        Handle(Request("stop_stream", c, m, NoTimestamp))

HandleClientExit ==
    \E c \in ClientIds :
        Handle(Request("handle_client_exit", c, 0, NoTimestamp))

Next ==
    \/ ConnectNewClientToServer
    \/ GetMovieRtpUrl
    \/ StartStreaming
    \/ SkipToTimestamp
    \/ StopStream
    \/ HandleClientExit

Spec == Init /\ [][Next]_vars

\* ------------------------------------------ serial handling, with the list
\* /get_movies: the handler reads the movies table and answers 200 with the
\* list; it has no statement that reads or writes `clients`.
get_movies(w, t) ==
    LET f == w.frames[t] IN
    CASE f.pc = "L338" -> Goto(w, t, "L340")
      [] f.pc = "L340" -> Goto(w, t, "L354")
      [] f.pc = "L354" -> Return(w, t, 200)

GetMovies ==
    /\ phase = "serial"
    /\ \E w0 \in {[World EXCEPT !.frames =
                      [t \in Threads |->
                          IF t = MainThread
                          THEN [IdleFrame EXCEPT !.pc = "L338",
                                                 !.op = "get_movies"]
                          ELSE IdleFrame]]} :
          Install(get_movies(get_movies(get_movies(w0, MainThread),
                                        MainThread), MainThread))
    /\ UNCHANGED << phase, base, connects, issued, trail, walk, calc, player_window >>

NextMovies == Next \/ GetMovies

SpecMovies == Init /\ [][NextMovies]_vars

\* -------------------------------------------- concurrent request handling
\* After any serial history, up to NumThreads requests are dispatched to
\* worker threads and overlap: each thread executes its handler one statement
\* at a time, in any interleaving, until every response is out.
Requests ==
    {Request("connect_new_client_to_server", 0, 0, NoTimestamp)}
    \cup {Request("get_movie_rtp_url", c, m, NoTimestamp) :
              c \in ClientIds, m \in MovieIds}
    \cup {Request("start_streaming", c, 0, NoTimestamp) : c \in ClientIds}
    \cup {Request("skip_to_timestamp", c, 0, ts) :
              c \in ClientIds, ts \in SeekSamples}
    \cup {Request("stop_stream", c, m, NoTimestamp) :
              c \in ClientIds, m \in StopMovieIds}
    \cup {Request("handle_client_exit", c, 0, NoTimestamp) : c \in ClientIds}

Dispatch(t) ==
    \E req \in Requests :
        /\ req.op = "connect_new_client_to_server" => connects < MaxClients
        /\ \/ /\ phase = "serial"
              /\ phase' = "concurrent"
              /\ base' = Registry(World)
              /\ frames' = [u \in Threads |->
                    IF u = t THEN Begin(World, t, req).frames[t] ELSE IdleFrame]
           \/ /\ phase = "concurrent"
              /\ frames[t].pc = "idle"
              /\ UNCHANGED << phase, base >>
              /\ frames' = Begin(World, t, req).frames
        /\ connects' = IF req.op = "connect_new_client_to_server"
                       THEN connects + 1 ELSE connects
        /\ UNCHANGED << objs, clients, connected_clients, streaming_clients,
                        client_id_counter, issued, trail, walk, calc, player_window >>

Advance(t) ==
    /\ phase = "concurrent"
    /\ frames[t].pc \notin {"idle", "done"}
    /\ Install(Step(World, t))
    /\ issued' = IF /\ frames'[t].pc = "done"
                    /\ frames'[t].op = "connect_new_client_to_server"
                    /\ frames'[t].status = 200
                 THEN issued \cup {frames'[t].ret_id} ELSE issued
    /\ UNCHANGED << phase, base, connects, trail, walk, calc, player_window >>

NextConc ==
    \/ Next
    \/ \E t \in Threads : Dispatch(t)
    \/ \E t \in Threads : Advance(t)

SpecConc == Init /\ [][NextConc]_vars

\* ------------------------------------------- serial handling, remembered
\* The same serial handling, observed: `trail` remembers the latest answered
\* requests for as long as they follow one of two request sequences,
\*   stop_stream (200), get_movie_rtp_url of a catalog movie, start_streaming
\*   start_streaming (200), start_streaming
\* each addressed to one client id.  It is empty after any other request.
Answer(f) ==
    [client_id |-> f.client_id, movie_id |-> f.movie_id, op |-> f.op,
     status |-> f.status]

StopPrepareStart(seq) ==
    /\ Len(seq) \in 1..3
    /\ seq[1].op = "stop_stream" /\ seq[1].status = 200
    /\ Len(seq) >= 2 =>
          /\ seq[2].op = "get_movie_rtp_url"
          /\ seq[2].client_id = seq[1].client_id
          /\ seq[2].movie_id \in Catalog
    /\ Len(seq) >= 3 =>
          /\ seq[3].op = "start_streaming"
          /\ seq[3].client_id = seq[1].client_id

StartStart(seq) ==
    /\ Len(seq) \in 1..2
    /\ seq[1].op = "start_streaming" /\ seq[1].status = 200
    /\ Len(seq) >= 2 =>
          /\ seq[2].op = "start_streaming"
          /\ seq[2].client_id = seq[1].client_id

Followed(seq) == StopPrepareStart(seq) \/ StartStart(seq)

\* The longest suffix of the remembered requests and the new answer that
\* follows one of the sequences.
Remember(f) ==
    LET all == Append(trail, Answer(f))
        from == {k \in 1..Len(all) : Followed(SubSeq(all, k, Len(all)))}
    IN  IF from = {} THEN << >>
        ELSE SubSeq(all, CHOOSE k \in from : \A j \in from : k <= j, Len(all))

Receive ==
    \E req \in Requests :
        /\ req.op = "connect_new_client_to_server" => connects < MaxClients
        /\ Serve(req)
        /\ trail' = Remember(frames'[MainThread])
        /\ UNCHANGED << walk, calc, player_window >>

SpecTrail == Init /\ [][Receive]_vars

\* ------------------------------------- serial handling, a movie asked twice
\* The same serial handling, observed: here `trail` holds the answer of a
\* get_movie_rtp_url of a catalog movie that came right after a successful
\* get_movie_rtp_url of another movie for the same client id, and is empty
\* after any other request.
PreparePrepare(before, after) ==
    /\ before.op = "get_movie_rtp_url" /\ before.status = 200
    /\ after.op = "get_movie_rtp_url"
    /\ after.client_id = before.client_id
    /\ after.movie_id \in Catalog
    /\ after.movie_id # before.movie_id

RememberPrepare(f) ==
    IF PreparePrepare(frames[MainThread], f) THEN << Answer(f) >> ELSE << >>

ReceivePrepare ==
    \E req \in Requests :
        /\ req.op = "connect_new_client_to_server" => connects < MaxClients
        /\ Serve(req)
        /\ trail' = RememberPrepare(frames'[MainThread])
        /\ UNCHANGED << walk, calc, player_window >>

SpecPrepare == Init /\ [][ReceivePrepare]_vars

\* ------------------------------------------ serial handling, walked through
\* The same serial handling, observed: `walk` follows one session from its
\* connect through get_movie_rtp_url of the first movie, start_streaming,
\* skip_to_timestamp 01:23:45, stop_stream and handle_client_exit, for as
\* long as no other request comes in between, and keeps the statuses.
WalkTimestamp == << <<"0", "1">>, <<"2", "3">>, <<"4", "5">> >>
WalkMovie == CHOOSE m \in Catalog : \A n \in Catalog : m <= n
WalkLen == Cardinality({"connect_new_client_to_server", "get_movie_rtp_url",
                        "start_streaming", "skip_to_timestamp",
                        "stop_stream", "handle_client_exit"})

WalkRequest(k, c) ==
    CASE k = 2 -> Request("get_movie_rtp_url", c, WalkMovie, NoTimestamp)
      [] k = 3 -> Request("start_streaming", c, 0, NoTimestamp)
      [] k = 4 -> Request("skip_to_timestamp", c, 0, WalkTimestamp)
      [] k = 5 -> Request("stop_stream", c, WalkMovie, NoTimestamp)
      [] k = 6 -> Request("handle_client_exit", c, 0, NoTimestamp)

Follow(req, f) ==
    IF req.op = "connect_new_client_to_server"
    THEN [client_id |-> f.ret_id, statuses |-> << f.status >>]
    ELSE IF /\ Len(walk.statuses) \in 1..(WalkLen - 1)
            /\ req = WalkRequest(Len(walk.statuses) + 1, walk.client_id)
         THEN [walk EXCEPT !.statuses = Append(@, f.status)]
         ELSE NoWalk

Stroll ==
    \E req \in Requests :
        /\ req.op = "connect_new_client_to_server" => connects < MaxClients
        /\ Serve(req)
        /\ walk' = Follow(req, frames'[MainThread])
        /\ UNCHANGED << trail, calc, player_window >>

SpecWalk == Init /\ [][Stroll]_vars

\* --------------------------------------------- functions without registry
\* Before the first request, a function that reads nothing of the registry
\* is called on arguments of a bounded set, and `calc` keeps the call.
Fresh == phase = "serial" /\ frames[MainThread].pc = "idle"

Calls(result) ==
    /\ Fresh
    /\ calc' = result
    /\ UNCHANGED << objs, clients, connected_clients, streaming_clients,
                    client_id_counter, frames, phase, base, connects, issued,
                    trail, walk, player_window >>

\* The f-string of line 399 on a pair of ids.
FormatUrl ==
    \E c \in UrlIds, m \in UrlIds :
        Calls([fn |-> "rtp_url", client_id |-> c, movie_id |-> m,
               url |-> RtpUrl(c, m)])

\* ---- server.py: convert_movie_length_to_seconds
\* str.split(sep): the fields between the separators.
RECURSIVE split(_, _)
split(s, sep) ==
    IF \A i \in 1..Len(s) : s[i] # sep THEN << s >>
    ELSE LET k == CHOOSE i \in 1..Len(s) :
                      s[i] = sep /\ \A j \in 1..(i - 1) : s[j] # sep
         IN  << SubSeq(s, 1, k - 1) >> \o split(SubSeq(s, k + 1, Len(s)), sep)

\* A length as the movies table stores it, e.g. 00:01:00.
TwoDigits(n) == IF n < 10 THEN << "0" >> \o str(n) ELSE str(n)
Hhmmss(h, m, sec) ==
    TwoDigits(h) \o << ":" >> \o TwoDigits(m) \o << ":" >> \o TwoDigits(sec)

\* Mutant of convert_movie_length_to_seconds: minutes weigh like seconds.
convert_movie_length_flat_minutes(movie_length_in_hhmmss) ==
    LET parts == split(movie_length_in_hhmmss, ":")
    IN  IF Len(parts) # 3 \/ \E i \in 1..Len(parts) : parts[i] = << >>
        THEN [raised |-> TRUE, value |-> 0]
        ELSE [raised |-> FALSE,
              value |-> int(parts[1]) * 3600 + int(parts[2]) + int(parts[3])]

\* The unpacking of line 584 raises ValueError unless there are three
\* fields, and int() raises it on an empty field.
convert_movie_length_to_seconds(movie_length_in_hhmmss) ==
    LET parts == split(movie_length_in_hhmmss, ":")
    IN  IF Len(parts) # 3 \/ \E i \in 1..Len(parts) : parts[i] = << >>
        THEN [raised |-> TRUE, value |-> 0]
        ELSE [raised |-> FALSE,
              value |-> int(parts[1]) * 3600 + int(parts[2]) * 60
                            + int(parts[3])]

ConvertMovieLength ==
    \E h \in Hours, m \in Sixtieths, sec \in Sixtieths :
        Calls([fn |-> "convert_movie_length_to_seconds",
               result |-> convert_movie_length_to_seconds(Hhmmss(h, m, sec)),
               movie_length_in_hhmmss |-> Hhmmss(h, m, sec),
               hours |-> h, minutes |-> m, seconds |-> sec])

\* ---- client.py: the movie list and the gallery
\* The ids of a set, ascending: the order Movies.query.all() lists the rows.
RECURSIVE Ascending(_)
Ascending(S) ==
    IF S = {} THEN << >>
    ELSE LET least == CHOOSE x \in S : \A y \in S : x <= y
         IN  << least >> \o Ascending(S \ {least})

\* One entry of the list /get_movies returns (server.py:340-351).
MovieData(id, genre) ==
    [id |-> id, genre |-> genre, length_seconds_int |-> id * 60]

\* The lists the client can receive: the rows left in the table.
MovieLists ==
    UNION { { [i \in 1..Cardinality(S) |->
                  MovieData(Ascending(S)[i], g[Ascending(S)[i]])] :
              g \in [S -> Genres] } :
            S \in (SUBSET (1..MaxMovieId)) \ {{}} }

\* Client.get_selected_movie_data: Python's movies[selected_movie_id - 1]
\* is the entry at position selected_movie_id here; IndexError beyond the
\* list.  The second field is selected_movie_length_in_seconds_as_integer.
get_selected_movie_data(movies, selected_movie_id) ==
    IF selected_movie_id \notin 1..Len(movies)
    THEN [raised |-> TRUE, selected_movie |-> MovieData(0, "none"),
          selected_movie_length_in_seconds_as_integer |-> 0]
    ELSE [raised |-> FALSE, selected_movie |-> movies[selected_movie_id],
          selected_movie_length_in_seconds_as_integer |->
              movies[selected_movie_id].length_seconds_int]

GetSelectedMovieData ==
    \E movies \in MovieLists :
        \E k \in 1..Len(movies) :
            Calls([fn |-> "get_selected_movie_data",
                   result |-> get_selected_movie_data(movies, movies[k].id),
                   movies |-> movies, selected_movie_id |-> movies[k].id])

\* MovieGalleryWindow.create_movie_button: the button of a movie.
create_movie_button(movie_data) ==
    [movie_id |-> movie_data.id, movie_genre |-> movie_data.genre]

\* MovieGalleryWindow.create_movie_buttons
create_movie_buttons(movie_list) ==
    [i \in 1..Len(movie_list) |-> create_movie_button(movie_list[i])]

\* Mutant of filter_movies_by_genre: "All" is a genre like the others.
RECURSIVE filter_movies_by_genre_only(_, _)
filter_movies_by_genre_only(movie_buttons, selected_genre) ==
    IF movie_buttons = << >> THEN << >>
    ELSE LET movie_btn == movie_buttons[Len(movie_buttons)]
             before == filter_movies_by_genre_only(
                           SubSeq(movie_buttons, 1, Len(movie_buttons) - 1),
                           selected_genre)
         IN  IF movie_btn.movie_genre = selected_genre
             THEN Append(before, movie_btn) ELSE before

\* MovieGalleryWindow.filter_movies_by_genre: filtered_movies after the loop
\* of lines 610-613.
RECURSIVE filter_movies_by_genre(_, _)
filter_movies_by_genre(movie_buttons, selected_genre) ==
    IF movie_buttons = << >> THEN << >>
    ELSE LET movie_btn == movie_buttons[Len(movie_buttons)]
             before == filter_movies_by_genre(
                           SubSeq(movie_buttons, 1, Len(movie_buttons) - 1),
                           selected_genre)
         IN  IF selected_genre = "All" \/ movie_btn.movie_genre = selected_genre
             THEN Append(before, movie_btn) ELSE before

FilterMoviesByGenre ==
    \E movies \in MovieLists, genre \in GenreOptions :
        Calls([fn |-> "filter_movies_by_genre",
               movie_buttons |-> create_movie_buttons(movies),
               selected_genre |-> genre,
               filtered_movies |->
                   filter_movies_by_genre(create_movie_buttons(movies), genre)])

NextCalc ==
    \/ FormatUrl
    \/ ConvertMovieLength
    \/ GetSelectedMovieData
    \/ FilterMoviesByGenre

SpecCalc == Init /\ [][NextCalc]_vars

\* The routes handled serially, or the endpoint string formatted.
NextUrl ==
    \/ calc.fn = "none" /\ Next
    \/ FormatUrl

SpecUrl == Init /\ [][NextUrl]_vars

\* ------------------------------------------- client.py: the playback slider
\* The timestamp of a request in milliseconds, as line 467 and 472 compute it.
Milliseconds(ts) == (int(ts[1]) * 3600 + int(ts[2]) * 60 + int(ts[3])) * 1000

\* Positions of the playback slider, in whole seconds: the slider runs from
\* 0 to the length of the movie (create_controls, lines 1344-1349).
SliderPositions == 0..(MaxHours * 3600 + 61)

\* Mutant of SliderTimestamp: the minutes are not taken within the hour.
SliderTimestampWholeMinutes(current_timestamp) ==
    [hours |-> current_timestamp \div 3600,
     minutes |-> current_timestamp \div 60,
     seconds |-> current_timestamp % 60]

\* on_slider_release, lines 1557-1559: hours, minutes and seconds.
SliderTimestamp(current_timestamp) ==
    [hours |-> current_timestamp \div 3600,
     minutes |-> (current_timestamp % 3600) \div 60,
     seconds |-> current_timestamp % 60]

\* Client.skip_to_timestamp: the last segment of the URL, each number
\* formatted with :02.
ClientSkipToTimestamp(hours, minutes, seconds) == Hhmmss(hours, minutes, seconds)

\* The route of server.py:438 binds hours, minutes and seconds to the
\* strings between the colons of the segment.
RouteTimestamp(segment) == split(segment, ":")

\* The slider released once, at a position: what the client sends and the
\* seek time the server computes from it.
SeekBySlider ==
    /\ calc.fn = "none"
    /\ \E position \in SliderPositions :
          \A sent_hms \in {SliderTimestamp(position)} :
          \A segment \in {ClientSkipToTimestamp(sent_hms.hours,
                                 sent_hms.minutes, sent_hms.seconds)} :
              Calls([fn |-> "on_slider_release",
                     current_timestamp |-> position,
                     hours |-> sent_hms.hours, minutes |-> sent_hms.minutes,
                     seconds |-> sent_hms.seconds,
                     segment |-> segment,
                     seek_time_ms |-> Milliseconds(RouteTimestamp(segment))])

SpecSeek == Init /\ [][SeekBySlider]_vars

\* -------------------------------------- client.py: the movie player window
\* The window has two threads.  The Tk main loop runs the callbacks of the
\* buttons and of the slider one at a time; the time update thread, started
\* by start_movie_player, runs update_time_labels once a second.  Both read
\* and write the fields of the window with no lock, so the statements of the
\* one interleave with the statements of the other.  A call of the time
\* update thread into Tk (a StringVar set, a widget destroyed) is carried
\* out by the main loop, between two callbacks.
MaxLength == 3
Lengths == 1..MaxLength

\* The position of thread th ("tk" or "timer") becomes pc.
At(mp, th, pc) ==
    IF th = "tk" THEN [mp EXCEPT !.tk = pc] ELSE [mp EXCEPT !.timer = pc]

\* requests.get / requests.post of one of the Client methods.
Send(mp, request) ==
    [mp EXCEPT !.sent = [request |-> request, turn |-> 1 - mp.sent.turn]]

\* format_time(seconds): divmod by 3600, then by 60, each formatted with :02.
format_time(seconds) ==
    Hhmmss(seconds \div 3600, (seconds % 3600) \div 60, (seconds % 3600) % 60)

\* start_movie_player for a movie of the given length, followed by
\* create_controls and start_time_update_thread.
start_movie_player(mp, length) ==
    [Send(mp, "get_movie_rtp_url") EXCEPT
        !.window = "player", !.controls = TRUE, !.length = length,
        !.stop_movie_event = FALSE,
        !.elapsed_var = format_time(0), !.remain_var = format_time(length),
        !.timer = "L1457", !.fetched = TRUE, !.started = FALSE]

\* stop_movie, one statement of thread th, which goes on at `back` after it.
stop_movie(mp, th, back) ==
    LET pc == IF th = "tk" THEN mp.tk ELSE mp.timer IN
    CASE pc = "L1510" ->
            At([mp EXCEPT !.stop_movie_event = TRUE, !.started = FALSE],
               th, "L1513")
      [] pc = "L1513" -> At([mp EXCEPT !.current_timestamp = 0], th, "L1516")
      [] pc = "L1516" -> At([mp EXCEPT !.movie_started = FALSE], th, "L1519")
      [] pc = "L1519" -> At([mp EXCEPT !.state = "Stopped"], th, "L1522")
      [] pc = "L1522" ->
            At([Send(mp, "stop_streaming") EXCEPT !.fetched = FALSE],
               th, "L1525")
      [] pc = "L1525" ->
            At([mp EXCEPT !.window = "gallery", !.controls = FALSE], th, back)

StopMoviePcs == {"L1510", "L1513", "L1516", "L1519", "L1522", "L1525"}

\* vlc.MediaPlayer.pause() toggles between playing and paused.
Paused(state) ==
    CASE state = "Playing" -> "Paused"
      [] state = "Paused" -> "Playing"
      [] OTHER -> state

\* play_pause_movie, one statement.
play_pause_movie(mp) ==
    CASE mp.tk = "L1622" ->
            IF ~mp.movie_started
            THEN [mp EXCEPT !.movie_started = TRUE, !.tk = "L1628"]
            ELSE [mp EXCEPT !.tk = "L1637"]
      [] mp.tk = "L1628" ->
            [Send(mp, "start_streaming") EXCEPT
                !.tk = "L1632", !.started = TRUE]
      [] mp.tk = "L1632" ->
            [mp EXCEPT !.tk = "idle",
                       !.state = IF mp.state = "Playing"
                                 THEN "Playing" ELSE "Opening"]
      [] mp.tk = "L1637" ->
            [mp EXCEPT !.tk = "idle", !.state = Paused(mp.state)]

\* on_slider_release after line 1552: the skip request is sent.
on_slider_release(mp) ==
    [Send(mp, "skip_to_timestamp") EXCEPT !.tk = "idle"]

\* update_time_labels_thread and update_time_labels, one statement.
\* self.player.get_state() is read once at line 1466 and once for the tests
\* of lines 1473-1482.
update_time_labels(mp) ==
    CASE mp.timer = "L1457" ->
            [mp EXCEPT !.timer = IF mp.stop_movie_event
                                 THEN "none" ELSE "L1466"]
      [] mp.timer = "L1466" ->
            [mp EXCEPT !.timer =
                IF mp.state = "Ended" \/ mp.length <= mp.current_timestamp
                THEN "L1468" ELSE "L1473"]
      [] mp.timer = "L1468" ->
            [mp EXCEPT !.elapsed_var = format_time(mp.length),
                       !.remain_var = format_time(0),
                       !.timer = "L1510"]
      [] mp.timer \in StopMoviePcs -> stop_movie(mp, "timer", "L1473")
      [] mp.timer = "L1473" ->
            [mp EXCEPT !.timer = IF mp.state = "Playing"
                                 THEN "L1485" ELSE "L1457"]
      [] mp.timer = "L1485" ->
            [mp EXCEPT !.current_timestamp = mp.current_timestamp + 1,
                       !.timer = "L1488"]
      [] mp.timer = "L1488" ->
            LET movie_length_in_seconds == mp.length
                elapsed_time ==
                    IF movie_length_in_seconds <= mp.current_timestamp
                    THEN movie_length_in_seconds ELSE mp.current_timestamp
                remaining_time ==
                    IF movie_length_in_seconds - mp.current_timestamp >= 0
                    THEN movie_length_in_seconds - mp.current_timestamp
                    ELSE 0
            IN  [mp EXCEPT !.elapsed_var = format_time(elapsed_time),
                           !.remain_var = format_time(remaining_time),
                           !.timer = "L1457"]

\* The statements of the time update thread that call into Tk.
TkCalls == {"L1468", "L1488", "L1525"}

Moves(mp) ==
    /\ player_window' = mp
    /\ UNCHANGED << objs, clients, connected_clients, streaming_clients,
                    client_id_counter, frames, phase, base, connects, issued,
                    trail, walk, calc >>

\* The user at the controls: the main loop is idle and the widgets exist.
AtTheControls == player_window.tk = "idle" /\ player_window.controls

\* 'Play Movie' in the selected movie window; the time update thread of the
\* movie before has ended.
StartMoviePlayer ==
    /\ player_window.tk = "idle"
    /\ player_window.window = "gallery"
    /\ player_window.timer = "none"
    /\ \E length \in Lengths : Moves(start_movie_player(player_window, length))

ClickPlayPause ==
    AtTheControls /\ Moves([player_window EXCEPT !.tk = "L1622"])

ClickStop ==
    AtTheControls /\ Moves([player_window EXCEPT !.tk = "L1510"])

\* The slider released at a position: line 1552 stores it.
ReleaseSlider ==
    /\ AtTheControls
    /\ \E position \in 0..player_window.length :
          Moves([player_window EXCEPT !.current_timestamp = position,
                                      !.tk = "L1562"])

\* The main loop runs the next statement of the callback.
TkStep ==
    /\ player_window.tk # "idle"
    /\ Moves(CASE player_window.tk \in StopMoviePcs ->
                      stop_movie(player_window, "tk", "idle")
               [] player_window.tk = "L1562" ->
                      on_slider_release(player_window)
               [] OTHER -> play_pause_movie(player_window))

\* The time update thread runs its next statement.
TimerStep ==
    /\ player_window.timer # "none"
    /\ player_window.timer \in TkCalls => player_window.tk = "idle"
    /\ Moves(update_time_labels(player_window))

\* The vlc player of the client: the stream opens, and it ends.
VlcEvent ==
    /\ player_window.state \in {"Opening", "Playing"}
    /\ Moves([player_window EXCEPT !.state =
                  IF player_window.state = "Opening"
                  THEN "Playing" ELSE "Ended"])

NextPlayer ==
    \/ StartMoviePlayer
    \/ ClickPlayPause
    \/ ClickStop
    \/ ReleaseSlider
    \/ TkStep
    \/ TimerStep
    \/ VlcEvent

SpecPlayer == Init /\ [][NextPlayer]_vars


\* ================================================================ claims
\* The session a registry entry holds, and the request last answered.
Session(c) == objs[clients[c]]
Last == frames[MainThread]
Answered(f) == f.pc = "done"
RegistryVars ==
    << objs, clients, connected_clients, streaming_clients, client_id_counter >>

\* C1: every session whose is_streaming flag is true has a player and a
\* media, in every state a sequence of requests reaches.
C1_StreamingHasEngineAndAsset ==
    \A c \in DOMAIN clients :
        Session(c).is_streaming =>
            Session(c).player.some /\ Session(c).media.some

\* The threads whose response is out, once the overlapping requests are over.
Done == {t \in Threads : frames[t].pc = "done"}
BatchOver == phase = "concurrent" /\ Quiescent
Prepared(o) == o.player.some /\ o.media.some /\ ~o.is_streaming

\* C2: of two overlapping start_streaming requests for one prepared session,
\* exactly one answers 200, the other 400, and streaming_clients grows by 1.
C2_ConcurrentStartExactlyOneWins ==
    \A t1, t2 \in Threads :
        ( /\ BatchOver /\ t1 # t2 /\ Done = {t1, t2}
          /\ frames[t1].op = "start_streaming"
          /\ frames[t2].op = "start_streaming"
          /\ frames[t1].client_id = frames[t2].client_id
          /\ frames[t1].client_id \in DOMAIN base.clients
          /\ Prepared(base.objs[base.clients[frames[t1].client_id]]) )
        => /\ {frames[t1].status, frames[t2].status} = {200, 400}
           /\ streaming_clients = base.streaming_clients + 1

\* The requests of the threads in `order`, handled one after the other from w.
RECURSIVE SerialRun(_, _, _, _)
SerialRun(w, order, i, n) ==
    IF i > n THEN w
    ELSE CHOOSE w2 \in
            { SerialRun(w1, order, i + 1, n) :
                w1 \in {Run(Begin(w, order[i], RequestOf(frames[order[i]])),
                            order[i])} } : TRUE

Orders(S) ==
    {o \in [1..Cardinality(S) -> S] :
        \A i, j \in 1..Cardinality(S) : i # j => o[i] # o[j]}

\* What a set of requests leaves behind: the registry and the responses.
Outcome(w, S) ==
    [registry |-> Registry(w),
     responses |-> [t \in S |-> << w.frames[t].status, w.frames[t].ret_id,
                                   w.frames[t].ret_url >>]]

\* C3: overlapping requests addressed to one session leave the registry and
\* the responses that some serial order of the same requests leaves.
C3_PerSessionLinearizable ==
    ( /\ BatchOver /\ Done # {}
      /\ \E c \in ClientIds : \A t \in Done :
            /\ frames[t].client_id = c
            /\ frames[t].op # "connect_new_client_to_server" )
    => \E o \in Orders(Done) :
          Outcome(SerialRun([objs |-> base.objs, clients |-> base.clients,
                             connected_clients |-> base.connected_clients,
                             streaming_clients |-> base.streaming_clients,
                             client_id_counter |-> base.client_id_counter,
                             frames |-> [t \in Threads |-> IdleFrame]],
                            o, 1, Cardinality(Done)), Done)
            = Outcome(World, Done)

\* C4: handled serially, the k-th connect request answers 200 with
\* client_id = k, whatever requests came between the connects.
C4_KthConnectReturnsK ==
    (phase = "serial" /\ Answered(Last)
        /\ Last.op = "connect_new_client_to_server")
    => Last.status = 200 /\ Last.ret_id = connects

C4_Witness ==
    /\ phase = "serial" /\ Answered(Last)
    /\ Last.op = "connect_new_client_to_server"
    /\ connects = 2 /\ Last.ret_id = 2
    /\ DOMAIN clients = {2}

\* C5: overlapping connect requests answer with pairwise distinct client ids.
C5_ConcurrentConnectsDistinct ==
    \A t1, t2 \in Threads :
        ( /\ BatchOver /\ t1 # t2 /\ {t1, t2} \subseteq Done
          /\ frames[t1].op = "connect_new_client_to_server"
          /\ frames[t2].op = "connect_new_client_to_server"
          /\ frames[t1].status = 200 /\ frames[t2].status = 200 )
        => frames[t1].ret_id # frames[t2].ret_id

\* C6: no request makes client_id_counter smaller, and a connect never
\* answers with an id an earlier connect answered with.
C6_IdsNeverReissued ==
    [][ /\ client_id_counter' >= client_id_counter
        /\ connects' = connects + 1 => frames'[MainThread].ret_id \notin issued
      ]_vars

C6_Witness ==
    /\ Answered(Last) /\ Last.op = "connect_new_client_to_server"
    /\ 1 \in issued /\ 1 \notin DOMAIN clients
    /\ Last.ret_id \in DOMAIN clients /\ Last.ret_id > 1

\* C7: after every request, connected_clients is the number of entries of
\* the clients dictionary.
C7_ConnectedCountIsEntries ==
    phase = "serial" => connected_clients = Cardinality(DOMAIN clients)

C7_Witness ==
    /\ Answered(Last) /\ Last.op = "handle_client_exit"
    /\ Last.status \in {200, 201}
    /\ connected_clients = 1 /\ client_id_counter = 2

\* C8: after every request, streaming_clients is the number of sessions in
\* the registry whose is_streaming flag is true.
C8_StreamingCountIsFlags ==
    phase = "serial" =>
        streaming_clients =
            Cardinality({c \in DOMAIN clients : Session(c).is_streaming})

C8_Witness ==
    /\ Answered(Last) /\ Last.op = "handle_client_exit" /\ Last.status = 201
    /\ streaming_clients = 1
    /\ \E c \in DOMAIN clients : Session(c).is_streaming

SessionRoutes ==
    {"start_streaming", "skip_to_timestamp", "stop_stream",
     "handle_client_exit"}

\* C9: start_streaming, skip_to_timestamp, stop_streaming and client_exit
\* addressed to an id that is not in the registry answer 404 and change
\* neither the dictionary, nor a session, nor a counter.
C9_UnknownSessionRejected ==
    [][ ( /\ frames'[MainThread].op \in SessionRoutes
          /\ frames'[MainThread].client_id \notin DOMAIN clients )
        => ( /\ frames'[MainThread].status = 404
             /\ UNCHANGED RegistryVars )
      ]_vars

C9_Witness ==
    /\ Answered(Last) /\ Last.op \in SessionRoutes /\ Last.status = 404
    /\ Last.client_id \notin DOMAIN clients
    /\ streaming_clients > 0

\* C10 as claimed: get_movie_rtp_url addressed to an id that is not in the
\* registry answers 404 for every movie_id.
C10_UnknownSessionAlways404 ==
    [][ ( /\ frames'[MainThread].op = "get_movie_rtp_url"
          /\ frames'[MainThread].client_id \notin DOMAIN clients )
        => frames'[MainThread].status = 404
      ]_vars

\* C10 as amended: get_movie_rtp_url addressed to an id that is not in the
\* registry answers 404 when the movie is in the catalog, and 405 when it is
\* not (the movie is looked up before the client).
C10_UnknownSession404IfMovieExists ==
    [][ ( /\ frames'[MainThread].op = "get_movie_rtp_url"
          /\ frames'[MainThread].client_id \notin DOMAIN clients )
        => frames'[MainThread].status =
              IF frames'[MainThread].movie_id \in Catalog THEN 404 ELSE 405
      ]_vars

C10_Witness ==
    /\ Answered(Last) /\ Last.op = "get_movie_rtp_url"
    /\ Last.client_id \notin DOMAIN clients
    /\ Last.movie_id \in Catalog /\ Last.status = 404
    /\ DOMAIN clients # {}

\* The request being answered by a step, and the routes' defined outcomes.
Asked == frames'[MainThread]
SuccessStatuses == {200, 201}
DefinedStatuses == {200, 201, 400, 404, 405}

\* C11: get_movie_rtp_url for a session in the registry and a movie_id that
\* is not in the catalog answers 405 and changes neither the session's
\* player, media and is_streaming flag nor a registry counter.
C11_AbsentMovieRejected ==
    [][ ( /\ Asked.op = "get_movie_rtp_url"
          /\ Asked.client_id \in DOMAIN clients
          /\ Asked.movie_id \notin Catalog )
        => ( /\ Asked.status = 405
             /\ UNCHANGED RegistryVars )
      ]_vars

C11_Witness ==
    /\ Answered(Last) /\ Last.op = "get_movie_rtp_url" /\ Last.status = 405
    /\ Last.client_id \in DOMAIN clients
    /\ Last.movie_id \notin Catalog
    /\ Session(Last.client_id).player.some

\* C12: a request that does not answer with a success status leaves every
\* session and every registry counter as they were before it.
C12_FailureChangesNothing ==
    [][ Asked.status \notin SuccessStatuses => UNCHANGED RegistryVars ]_vars

\* C13: every request ends in one of the defined outcomes of its route;
\* none ends in an unhandled internal failure (500).
C13_OnlyDefinedOutcomes ==
    Answered(Last) => Last.status \in DefinedStatuses

\* C14: start_streaming on a prepared session answers 200 and counts one
\* more stream; a start_streaming on the same session right after a
\* successful one answers 400 and leaves the count alone, so the two calls
\* together raise streaming_clients by exactly 1.
C14_SecondStartRejected ==
    [][ /\ ( /\ Asked.op = "start_streaming"
              /\ Asked.client_id \in DOMAIN clients
              /\ Prepared(Session(Asked.client_id)) )
            => ( /\ Asked.status = 200
                 /\ streaming_clients' = streaming_clients + 1 )
        /\ ( /\ Answered(Last) /\ Last.op = "start_streaming"
              /\ Last.status = 200
              /\ Asked.op = "start_streaming"
              /\ Asked.client_id = Last.client_id )
            => ( /\ Asked.status = 400
                 /\ streaming_clients' = streaming_clients )
      ]_vars

C14_Witness ==
    /\ Len(trail) = 2 /\ StartStart(trail)
    /\ trail[2].status = 400
    /\ Session(trail[2].client_id).is_streaming
    /\ streaming_clients = 1

\* C15: skip_to_timestamp on a session in the registry answers 200 exactly
\* when the session's is_streaming flag is true and 400 otherwise.
C15_SeekIffStreaming ==
    [][ ( /\ Asked.op = "skip_to_timestamp"
          /\ Asked.client_id \in DOMAIN clients )
        => Asked.status =
              IF Session(Asked.client_id).is_streaming THEN 200 ELSE 400
      ]_vars

\* C16: a successful skip_to_timestamp changes nothing but the player's
\* position and its playing state: the is_streaming flag, the media, the
\* player object, the dictionary and the three counters stay as they were.
C16_SeekOnlyMovesThePlayer ==
    [][ ( Asked.op = "skip_to_timestamp" /\ Asked.status = 200 )
        => ( /\ Asked.client_id \in DOMAIN clients
             /\ UNCHANGED << clients, connected_clients, streaming_clients,
                             client_id_counter >>
             /\ objs' = [objs EXCEPT
                    ![clients[Asked.client_id]].player.time =
                        Milliseconds(Asked.ts),
                    ![clients[Asked.client_id]].player.playing = TRUE] )
      ]_vars

C16_Witness ==
    /\ Answered(Last) /\ Last.op = "skip_to_timestamp" /\ Last.status = 200
    /\ Session(Last.client_id).is_streaming
    /\ Session(Last.client_id).player.time = Milliseconds(Last.ts)
    /\ Session(Last.client_id).player.time > 0

\* The handler of a request run from the current registry up to the
\* statement at pc (or to its return when it never gets there).
RECURSIVE RunTo(_, _, _)
RunTo(w, t, pc) ==
    IF w.frames[t].pc \in {pc, "done"} THEN w
    ELSE CHOOSE w2 \in {RunTo(w1, t, pc) : w1 \in {Step(w, t)}} : TRUE

Midway(req, pc) ==
    RunTo(Begin([World EXCEPT !.frames = [t \in Threads |-> IdleFrame]],
                MainThread, req), MainThread, pc)

C18_ReusableAfterStop ==
    [][ /\ ( /\ Len(trail) = 1 /\ StopPrepareStart(trail)
              /\ Asked.op = "get_movie_rtp_url"
              /\ Asked.client_id = trail[1].client_id
              /\ Asked.movie_id \in Catalog )
            => Asked.status = 200
        /\ ( /\ Len(trail) = 2 /\ StopPrepareStart(trail)
              /\ Asked.op = "start_streaming"
              /\ Asked.client_id = trail[1].client_id )
            => ( /\ trail[2].status = 200
                 /\ Asked.status = 200
                 /\ Asked.client_id \in DOMAIN clients'
                 /\ objs'[clients'[Asked.client_id]].is_streaming
                 /\ objs'[clients'[Asked.client_id]].player.playing
                 /\ streaming_clients' = streaming_clients + 1 )
      ]_vars

C18_Witness ==
    /\ Len(trail) = 3 /\ StopPrepareStart(trail)
    /\ trail[2].status = 200 /\ trail[3].status = 200
    /\ Session(trail[3].client_id).is_streaming

\* C19: handle_client_exit on a session in the registry answers 201 exactly
\* when the session's is_streaming flag was true, and then both counters go
\* down by one; otherwise it answers 200 and only connected_clients goes
\* down by one.
C19_ExitOutcomeFollowsTheFlag ==
    [][ ( /\ Asked.op = "handle_client_exit"
          /\ Asked.client_id \in DOMAIN clients )
        => IF Session(Asked.client_id).is_streaming
           THEN /\ Asked.status = 201
                /\ streaming_clients' = streaming_clients - 1
                /\ connected_clients' = connected_clients - 1
           ELSE /\ Asked.status = 200
                /\ streaming_clients' = streaming_clients
                /\ connected_clients' = connected_clients - 1
      ]_vars

\* C20: handle_client_exit on a session in the registry, whatever the
\* session's state, ends with the id out of the registry.
C20_ExitAlwaysRemoves ==
    [][ ( /\ Asked.op = "handle_client_exit"
          /\ Asked.client_id \in DOMAIN clients )
        => Asked.client_id \notin DOMAIN clients'
      ]_vars

\* C23: connect, get_movie_rtp_url of movie 1, start_streaming,
\* skip_to_timestamp 01:23:45, stop_stream and handle_client_exit on the
\* connected session, begun in any state the registry reaches, each answer
\* 200, and afterwards the session's id is not in the registry.
C23_WalkThroughAllSucceed ==
    /\ \A k \in 1..Len(walk.statuses) : walk.statuses[k] = 200
    /\ Len(walk.statuses) = WalkLen => walk.client_id \notin DOMAIN clients

C23_Witness ==
    /\ Len(walk.statuses) = WalkLen
    /\ walk.statuses[WalkLen] = 200
    /\ connected_clients > 0

\* C21: the URL get_movie_rtp_url returns is the same function of
\* (client_id, movie_id) in every state of the registry; two different pairs
\* never get the same URL, and the pair (2, 1) gets
\* rtsp://localhost:8554/2/1.
C21_UrlIsInjectiveInThePair ==
    /\ ( /\ Answered(Last) /\ Last.op = "get_movie_rtp_url"
          /\ Last.status = 200 )
        => Last.ret_url = RtpUrl(Last.client_id, Last.movie_id)
    /\ calc.fn = "rtp_url" =>
          /\ \A c \in UrlIds, m \in UrlIds :
                RtpUrl(c, m) = calc.url
                    <=> (c = calc.client_id /\ m = calc.movie_id)
          /\ (calc.client_id = 2 /\ calc.movie_id = 1) =>
                calc.url = << "rtsp://localhost:8554/", "2", "/", "1" >>

C21_Witness ==
    /\ calc.fn = "rtp_url"
    /\ calc.client_id = 11 /\ calc.movie_id = 2
    /\ calc.url = << "rtsp://localhost:8554/", "1", "1", "/", "2" >>

\* The "<client_id>/<movie_id>" part of a returned URL and of a :sout option.
PathOfUrl(url) == Tail(url)
PathOfSout(sout) == SubSeq(sout, 2, Len(sout) - 1)

\* C22: after every successful get_movie_rtp_url the :sout option of the
\* media the session's player holds names the same client_id/movie_id path
\* as the URL returned; no other request changes the option of a player, so
\* the player's sink is that of the URL last returned for the session.
C22_SinkMatchesReturnedUrl ==
    [][ /\ ( Asked.op = "get_movie_rtp_url" /\ Asked.status = 200 )
            => ( /\ Asked.client_id \in DOMAIN clients'
                 /\ LET o == objs'[clients'[Asked.client_id]]
                    IN  /\ o.player.some /\ o.player.media.some
                        /\ o.player.media.movie = Asked.movie_id
                        /\ PathOfSout(o.player.media.sout)
                               = PathOfUrl(Asked.ret_url) )
        /\ \A d \in DOMAIN clients' :
              ( /\ ~ ( /\ Asked.op = "get_movie_rtp_url"
                       /\ Asked.status = 200 /\ Asked.client_id = d )
                /\ objs'[clients'[d]].player.some )
              => ( /\ d \in DOMAIN clients
                   /\ objs'[clients'[d]].player.media
                          = Session(d).player.media )
      ]_vars

C22_Witness ==
    /\ Answered(Last) /\ Last.op = "get_movie_rtp_url" /\ Last.status = 200
    /\ Last.client_id # Last.movie_id
    /\ ~Session(Last.client_id).is_streaming
    /\ PathOfSout(Session(Last.client_id).player.media.sout)
           = str(Last.client_id) \o << "/" >> \o str(Last.movie_id)

\* A session that streams: flag set, with its player and media.
Streaming(o) == o.is_streaming /\ o.player.some /\ o.media.some

\* C24: get_movie_rtp_url addressed to a session that is streaming is not
\* accepted and does not change the media the session's player holds.
C24_NoPrepareWhileStreaming ==
    [][ ( /\ Asked.op = "get_movie_rtp_url"
          /\ Asked.client_id \in DOMAIN clients
          /\ Streaming(Session(Asked.client_id)) )
        => ( /\ Asked.status \notin SuccessStatuses
             /\ Asked.client_id \in DOMAIN clients'
             /\ objs'[clients'[Asked.client_id]].player.media
                    = Session(Asked.client_id).player.media )
      ]_vars

\* C29: get_movie_rtp_url of a catalog movie on a prepared session answers
\* 200 and rebinds it: the session's media and its player's media are the
\* requested movie, the player it had is used again (line 389 is not run),
\* is_streaming stays false, the dictionary and the counters are unchanged.
C29_PrepareAgainRebinds ==
    [][ ( /\ Asked.op = "get_movie_rtp_url"
          /\ Asked.client_id \in DOMAIN clients
          /\ Asked.movie_id \in Catalog
          /\ Prepared(Session(Asked.client_id)) )
        => ( /\ Asked.status = 200
             /\ Midway(RequestOf(Asked), "L389").frames[MainThread].pc = "done"
             /\ UNCHANGED << clients, connected_clients, streaming_clients,
                             client_id_counter >>
             /\ LET o == objs'[clients'[Asked.client_id]]
                IN  /\ o.player.some
                    /\ o.media.some /\ o.media.movie = Asked.movie_id
                    /\ o.player.media = o.media
                    /\ ~o.is_streaming
             /\ \A d \in DOMAIN clients \ {Asked.client_id} :
                    objs'[clients'[d]] = Session(d) )
      ]_vars

C29_Witness ==
    /\ trail = << Answer(Last) >>
    /\ Answered(Last) /\ Last.op = "get_movie_rtp_url" /\ Last.status = 200
    /\ Session(Last.client_id).media.movie = Last.movie_id
    /\ Session(Last.client_id).player.media.movie = Last.movie_id
    /\ ~Session(Last.client_id).is_streaming
    /\ \E d \in DOMAIN clients : Streaming(Session(d))

\* C25: reset_client(id), called on a session in the registry (stop_stream,
\* line 509), leaves an entry under the same id whose Client has that id, no
\* player, no media and is_streaming false; connected_clients,
\* client_id_counter and every other id's session are as before the call.
C25_ResetKeepsTheIdentity ==
    [][ Asked.op = "stop_stream"
        => \A c \in {Asked.client_id},
              pre \in {Midway(RequestOf(Asked), "L265")},
              post \in {Midway(RequestOf(Asked), "L511")} :
               ( pre.frames[MainThread].pc = "L265" /\ c \in DOMAIN pre.clients )
               => ( /\ post.frames[MainThread].pc = "L511"
                    /\ DOMAIN post.clients = DOMAIN pre.clients
                    /\ post.objs[post.clients[c]] = Client(c)
                    /\ post.connected_clients = pre.connected_clients
                    /\ post.client_id_counter = pre.client_id_counter
                    /\ \A d \in DOMAIN pre.clients \ {c} :
                          post.objs[post.clients[d]] = pre.objs[pre.clients[d]] )
      ]_vars

C25_Witness ==
    /\ Answered(Last) /\ Last.op = "stop_stream" /\ Last.status = 200
    /\ Last.client_id \in DOMAIN clients
    /\ Session(Last.client_id) = Client(Last.client_id)
    /\ \E d \in DOMAIN clients \ {Last.client_id} : Prepared(Session(d))

\* C30: once a handle_client_exit for an id has answered 200 or 201, the id
\* is not in the registry, whatever requests for the same id overlap it.
C30_ExitedIdStaysOut ==
    \A t \in Threads :
        ( /\ phase = "concurrent"
          /\ frames[t].pc = "done" /\ frames[t].op = "handle_client_exit"
          /\ frames[t].status \in SuccessStatuses )
        => frames[t].client_id \notin DOMAIN clients

\* C26: convert_movie_length_to_seconds of the string HH:MM:SS written for
\* h hours, m minutes and s seconds returns h*3600 + m*60 + s.
C26_LengthInSeconds ==
    calc.fn = "convert_movie_length_to_seconds"
    => ( /\ ~calc.result.raised
         /\ calc.result.value
                = calc.hours * 3600 + calc.minutes * 60 + calc.seconds )

C26_Witness ==
    /\ calc.fn = "convert_movie_length_to_seconds"
    /\ calc.movie_length_in_hhmmss
           = << "0", "2", ":", "5", "9", ":", "0", "1" >>
    /\ calc.result.value = 10741

\* C27: get_selected_movie_data returns the entry of the movie list whose
\* id is selected_movie_id and stores that entry's length, for every list
\* the server sends and every id of a movie in it.
C27_SelectedMovieHasTheSelectedId ==
    calc.fn = "get_selected_movie_data"
    => ( /\ ~calc.result.raised
         /\ calc.result.selected_movie.id = calc.selected_movie_id
         /\ \E k \in 1..Len(calc.movies) :
               /\ calc.movies[k].id = calc.selected_movie_id
               /\ calc.result.selected_movie = calc.movies[k]
               /\ calc.result.selected_movie_length_in_seconds_as_integer
                      = calc.movies[k].length_seconds_int )

\* The elements of a sequence.
Range(seq) == {seq[i] : i \in 1..Len(seq)}

\* C28: after filter_movies_by_genre(g), filtered_movies holds exactly the
\* movie buttons whose genre is g, each once, or every button when g is
\* "All".
C28_FilteredAreTheGenre ==
    calc.fn = "filter_movies_by_genre"
    => ( /\ Range(calc.filtered_movies) =
                {b \in Range(calc.movie_buttons) :
                    calc.selected_genre = "All"
                        \/ b.movie_genre = calc.selected_genre}
         /\ Len(calc.filtered_movies)
                = Cardinality(Range(calc.filtered_movies)) )

C28_Witness ==
    /\ calc.fn = "filter_movies_by_genre"
    /\ calc.selected_genre = "All"
    /\ Len(calc.movie_buttons) = 3
    /\ Len(calc.filtered_movies) = 3
    /\ \E i, j \in 1..3 :
          calc.movie_buttons[i].movie_genre # calc.movie_buttons[j].movie_genre

\* The two overlapping requests t1 and t2 address the session c, which was
\* streaming with a player and a media when they began to overlap.
Overlap(t1, t2, c) ==
    /\ phase = "concurrent" /\ t1 # t2
    /\ frames[t1].pc # "idle" /\ frames[t2].pc # "idle"
    /\ frames[t1].client_id = c /\ frames[t2].client_id = c
    /\ c \in DOMAIN base.clients
    /\ Streaming(base.objs[base.clients[c]])

\* C31: a stop_stream overlapping another stop_stream or a
\* handle_client_exit for the same streaming session never makes
\* streaming_clients negative, and once both have answered the counter is
\* one less than before them.
C31_StreamingCountDecrementedOnce ==
    \A t1, t2 \in Threads : \A c \in ClientIds :
        ( /\ Overlap(t1, t2, c)
          /\ frames[t1].op = "stop_stream"
          /\ frames[t2].op \in {"stop_stream", "handle_client_exit"} )
        => /\ streaming_clients >= 0
           /\ Done = {t1, t2} =>
                  streaming_clients = base.streaming_clients - 1

\* The ids a handle_client_exit among the overlapping requests addresses.
Exited == {frames[t].client_id : t \in {u \in Done :
                                          frames[u].op = "handle_client_exit"}}

\* C32: once overlapping connect and handle_client_exit requests have all
\* answered, connected_clients is the number of registry entries, and every
\* id a connect returned, or that was in the registry before, and that no
\* exit addressed, is in the registry.
C32_ConnectsAndExitsKeepTheCount ==
    ( /\ BatchOver /\ Done # {}
      /\ \A t \in Done : frames[t].op \in {"connect_new_client_to_server",
                                            "handle_client_exit"}
      /\ \E t \in Done : frames[t].op = "connect_new_client_to_server" )
    => /\ connected_clients = Cardinality(DOMAIN clients)
       /\ \A t \in Done :
              ( /\ frames[t].op = "connect_new_client_to_server"
                /\ frames[t].status = 200
                /\ frames[t].ret_id \notin Exited )
              => frames[t].ret_id \in DOMAIN clients
       /\ (DOMAIN base.clients) \ Exited \subseteq DOMAIN clients

\* The overlapping requests all address the session c, which had a player
\* and a media when they began to overlap.
OneSession(c) ==
    /\ phase = "concurrent"
    /\ \A t \in Threads :
          frames[t].pc # "idle" =>
              /\ frames[t].client_id = c
              /\ frames[t].op # "connect_new_client_to_server"
    /\ c \in DOMAIN base.clients
    /\ base.objs[base.clients[c]].player.some
    /\ base.objs[base.clients[c]].media.some

\* Thread t answers in this step and was the last to refer to its Client
\* object: no registry entry and no other handler holds it.
LastHolder(t) ==
    /\ frames[t].pc # "done" /\ frames'[t].pc = "done"
    /\ frames[t].client # 0
    /\ \A c \in DOMAIN clients : clients[c] # frames[t].client
    /\ \A u \in Threads \ {t} : frames[u].client # frames[t].client

\* Thread t's statement is client.player.play() (lines 429 and 474), on a
\* Client object that has a player.
StartsThePlayer(t) ==
    /\ frames[t].pc \in {"L429", "L474"}
    /\ objs[frames[t].client].player.some

\* C33: with overlapping requests for one session, a handler never lets go
\* of a Client object whose player is playing unless the registry still
\* holds it, and once every request has answered a session in the registry
\* has a playing player only if is_streaming is true.
C33_NoEngineLeftPlaying ==
    [][ \A c \in ClientIds :
          OneSession(c) =>
            /\ \A t \in Threads :
                  LastHolder(t) =>
                      /\ ~objs[frames[t].client].player.playing
                      /\ ~StartsThePlayer(t)
            /\ Quiescent' =>
                  \A d \in DOMAIN clients' :
                      objs'[clients'[d]].player.playing
                          => objs'[clients'[d]].is_streaming
      ]_vars

\* C34: a request addressed to one session leaves every other session in
\* the registry, with the player, media and is_streaming flag it had.
C34_OtherSessionsUntouched ==
    [][ Asked.op \in SessionRoutes \cup {"get_movie_rtp_url"}
        => \A d \in DOMAIN clients \ {Asked.client_id} :
              /\ d \in DOMAIN clients'
              /\ objs'[clients'[d]] = objs[clients[d]]
      ]_vars

C34_Witness ==
    /\ Answered(Last) /\ Last.op = "handle_client_exit" /\ Last.status = 201
    /\ Last.client_id < MaxClients
    /\ \E d \in DOMAIN clients : Streaming(Session(d))

\* C35: get_movies, get_movie_rtp_url, start_streaming, skip_to_timestamp
\* and stop_stream leave the set of ids in the registry as it was; a connect
\* adds the id it returns, which was not there, and nothing else; a
\* handle_client_exit takes away no id but the one it addresses and adds
\* none.
C35_IdsChangeOnlyByConnectAndExit ==
    [][ /\ Asked.op \in {"get_movies", "get_movie_rtp_url", "start_streaming",
                         "skip_to_timestamp", "stop_stream"}
            => DOMAIN clients' = DOMAIN clients
        /\ Asked.op = "connect_new_client_to_server"
            => /\ Asked.ret_id \notin DOMAIN clients
               /\ DOMAIN clients' = DOMAIN clients \cup {Asked.ret_id}
        /\ Asked.op = "handle_client_exit"
            => /\ DOMAIN clients' \subseteq DOMAIN clients
               /\ DOMAIN clients \ DOMAIN clients' \subseteq {Asked.client_id}
      ]_vars

C35_Witness ==
    /\ Answered(Last) /\ Last.op = "get_movies" /\ Last.status = 200
    /\ DOMAIN clients = {MaxClients}
    /\ Prepared(Session(MaxClients))

\* C37: for every slider position t, the hours, minutes and seconds that
\* on_slider_release derives and Client.skip_to_timestamp sends are
\* recombined by the server's skip_to_timestamp into t * 1000 milliseconds.
C37_SliderSeekRoundTrip ==
    calc.fn = "on_slider_release"
        => /\ calc.seek_time_ms = calc.current_timestamp * 1000
           /\ calc.minutes \in 0..59 /\ calc.seconds \in 0..59

C37_Witness ==
    /\ calc.fn = "on_slider_release"
    /\ calc.current_timestamp = 3600 + 60 + 1
    /\ calc.segment = <<"0","1",":","0","1",":","0","1">>
    /\ calc.seek_time_ms = 3661000

\* A start_streaming request leaves the client in this step.
StartSent ==
    /\ player_window'.sent # player_window.sent
    /\ player_window'.sent.request = "start_streaming"

\* C36: in the GUI client every start_streaming request is preceded by a
\* get_movie_rtp_url request sent after the most recent stop_streaming
\* request (or after connect), and at most one start_streaming request is
\* sent between a start_movie_player and the following stop_movie.
C36_StartFollowsFetch ==
    [][ StartSent => player_window.fetched /\ ~player_window.started ]_vars

\* The seconds a label shows.
LabelSeconds(label) == convert_movie_length_to_seconds(label).value

\* The labels of the elapsed and of the remaining time, while the controls
\* exist: both within the movie, and together its length.
LabelsAddUp ==
    player_window.controls
        => /\ LabelSeconds(player_window.elapsed_var) \in 0..player_window.length
           /\ LabelSeconds(player_window.remain_var) \in 0..player_window.length
           /\ LabelSeconds(player_window.elapsed_var)
                  + LabelSeconds(player_window.remain_var)
                = player_window.length

\* C38: in the movie player current_timestamp stays within 0..movie length,
\* and the elapsed and remaining seconds that update_time_labels writes are
\* both within 0..movie length and sum to the movie length.
C38_TimestampWithinTheMovie ==
    /\ player_window.controls
           => player_window.current_timestamp \in 0..player_window.length
    /\ LabelsAddUp

=============================================================================
